---- MODULE Spec2Model ----
(***************************************************************************)
(* Model of packages/utils/node-resolver-rs/src/specifier.rs.              *)
(*                                                                         *)
(* A Rust &str is modelled as the sequence of its UTF-8 bytes (integers    *)
(* 0..255).  Byte-range slicing `&s[a..b]` panics when a bound does not    *)
(* fall on a character boundary; `chars().position(..)` counts characters, *)
(* not bytes.  Both are modelled as the standard library defines them, so  *)
(* that the places where the source mixes the two are visible.             *)
(***************************************************************************)
EXTENDS Integers, Sequences, FiniteSets, TLC

(***************************************************************************)
(* Text literals.                                                          *)
(***************************************************************************)
Ascii ==
  [c \in {"#", "%", "+", "-", ".", "/", "2", ":", "?", "@", "F", "N",
          "\\", "a", "d", "e", "f", "i", "l", "m", "n", "o", "p", "s", "~"} |->
     CASE c = "#" -> 35 [] c = "%" -> 37 [] c = "+" -> 43 [] c = "-" -> 45
       [] c = "." -> 46 [] c = "/" -> 47 [] c = "2" -> 50 [] c = ":" -> 58
       [] c = "?" -> 63 [] c = "@" -> 64 [] c = "F" -> 70 [] c = "N" -> 78
       [] c = "\\" -> 92
       [] c = "a" -> 97 [] c = "d" -> 100 [] c = "e" -> 101 [] c = "f" -> 102
       [] c = "i" -> 105 [] c = "l" -> 108 [] c = "m" -> 109 [] c = "n" -> 110
       [] c = "o" -> 111 [] c = "p" -> 112 [] c = "s" -> 115 [] c = "~" -> 126]

\* The bytes of an ASCII literal given as a tuple of characters.
Str(t) == [i \in 1..Len(t) |-> Ascii[t[i]]]

\* U+00E9 (e with acute accent), a character of two bytes: 0xC3 0xA9.
EAcute == <<195, 169>>

\* U+FFFD REPLACEMENT CHARACTER: 0xEF 0xBF 0xBD.
Replacement == <<239, 191, 189>>

(***************************************************************************)
(* str primitives of the standard library used by the source.              *)
(***************************************************************************)
\* A UTF-8 continuation byte (0x80..0xBF).
IsCont(b) == b >= 128 /\ b < 192

\* str::is_char_boundary, for a byte offset i (0-based).
is_char_boundary(s, i) ==
  \/ i = 0
  \/ i = Len(s)
  \/ i > 0 /\ i < Len(s) /\ ~IsCont(s[i + 1])

\* Whether `&s[a..b]` returns (it panics otherwise).
SliceOk(s, a, b) ==
  a <= b /\ b <= Len(s) /\ is_char_boundary(s, a) /\ is_char_boundary(s, b)

\* `&s[a..b]` for byte offsets a, b (0-based, half open) when SliceOk.
Slice(s, a, b) == SubSeq(s, a + 1, b)

\* Option values.
None == [some |-> FALSE, val |-> <<>>]
Some(v) == [some |-> TRUE, val |-> v]
NoPos == [some |-> FALSE, val |-> 0]

\* `s.chars().position(|c| c is one of the ASCII bytes in set)`: the number
\* of CHARACTERS before the first match, not its byte offset.
position(s, set) ==
  LET hits == {i \in 1..Len(s) : s[i] \in set}
  IN IF hits = {} THEN NoPos
     ELSE LET first == CHOOSE i \in hits : \A j \in hits : i <= j
          IN Some(Cardinality({j \in 1..(first - 1) : ~IsCont(s[j])}))

\* str::starts_with for a literal prefix.
starts_with(s, prefix) ==
  Len(s) >= Len(prefix) /\ SubSeq(s, 1, Len(prefix)) = prefix

\* str::to_ascii_lowercase.
to_ascii_lowercase(s) ==
  [i \in 1..Len(s) |-> IF s[i] >= 65 /\ s[i] <= 90 THEN s[i] + 32 ELSE s[i]]

(***************************************************************************)
(* percent_decode_str(..).decode_utf8_lossy()                              *)
(***************************************************************************)
IsHex(b) ==
  \/ b >= 48 /\ b <= 57
  \/ b >= 65 /\ b <= 70
  \/ b >= 97 /\ b <= 102

HexVal(b) ==
  IF b <= 57 THEN b - 48 ELSE IF b <= 70 THEN b - 55 ELSE b - 87

\* percent_decode: "%XY" with two hex digits becomes one byte, every other
\* byte (a stray '%' too) is copied.
RECURSIVE percent_decode(_)
percent_decode(s) ==
  IF s = <<>> THEN <<>>
  ELSE IF s[1] = 37 /\ Len(s) >= 3 /\ IsHex(s[2]) /\ IsHex(s[3])
       THEN <<16 * HexVal(s[2]) + HexVal(s[3])>>
              \o percent_decode(SubSeq(s, 4, Len(s)))
       ELSE <<s[1]>> \o percent_decode(SubSeq(s, 2, Len(s)))

\* Length of the well-formed UTF-8 character at the head of s, or 0 when the
\* head is ill-formed.
Utf8Len(s) ==
  LET b1 == s[1]
      n == Len(s)
      c(i) == n >= i /\ IsCont(s[i])
  IN IF b1 < 128 THEN 1
     ELSE IF b1 >= 194 /\ b1 <= 223 THEN (IF c(2) THEN 2 ELSE 0)
     ELSE IF b1 = 224
       THEN (IF n >= 3 /\ s[2] >= 160 /\ s[2] <= 191 /\ c(3) THEN 3 ELSE 0)
     ELSE IF b1 = 237
       THEN (IF n >= 3 /\ s[2] >= 128 /\ s[2] <= 159 /\ c(3) THEN 3 ELSE 0)
     ELSE IF b1 >= 225 /\ b1 <= 239
       THEN (IF c(2) /\ c(3) THEN 3 ELSE 0)
     ELSE IF b1 = 240
       THEN (IF n >= 4 /\ s[2] >= 144 /\ s[2] <= 191 /\ c(3) /\ c(4)
             THEN 4 ELSE 0)
     ELSE IF b1 = 244
       THEN (IF n >= 4 /\ s[2] >= 128 /\ s[2] <= 143 /\ c(3) /\ c(4)
             THEN 4 ELSE 0)
     ELSE IF b1 >= 241 /\ b1 <= 243
       THEN (IF c(2) /\ c(3) /\ c(4) THEN 4 ELSE 0)
     ELSE 0

\* Length of the ill-formed prefix that from_utf8_lossy replaces by one
\* U+FFFD: the longest prefix that begins a well-formed character.
InvalidLen(s) ==
  LET b1 == s[1]
      n == Len(s)
      second ==
        /\ n >= 2
        /\ IF b1 = 224 THEN s[2] >= 160 /\ s[2] <= 191
           ELSE IF b1 = 237 THEN s[2] >= 128 /\ s[2] <= 159
           ELSE IF b1 = 240 THEN s[2] >= 144 /\ s[2] <= 191
           ELSE IF b1 = 244 THEN s[2] >= 128 /\ s[2] <= 143
           ELSE b1 >= 225 /\ b1 <= 243 /\ IsCont(s[2])
  IN IF ~second THEN 1
     ELSE IF b1 >= 240 /\ n >= 3 /\ IsCont(s[3]) THEN 3
     ELSE 2

\* String::from_utf8_lossy.
RECURSIVE from_utf8_lossy(_)
from_utf8_lossy(s) ==
  IF s = <<>> THEN <<>>
  ELSE LET k == Utf8Len(s)
       IN IF k > 0
          THEN SubSeq(s, 1, k) \o from_utf8_lossy(SubSeq(s, k + 1, Len(s)))
          ELSE Replacement
                 \o from_utf8_lossy(SubSeq(s, InvalidLen(s) + 1, Len(s)))

\* percent_decode_str(path).decode_utf8_lossy()
decode_utf8_lossy(path) == from_utf8_lossy(percent_decode(path))

(***************************************************************************)
(* External collaborators: crate::builtins::BUILTINS, crate::Flags, the    *)
(* host platform, the url crate.                                           *)
(***************************************************************************)
\* The registry of builtin module names; "fs" stands for its members.
BUILTINS == {Str(<<"f", "s">>)}

\* The two options of crate::Flags that parse reads.
FlagNames == {"NPM_SCHEME", "ABSOLUTE_SPECIFIERS"}

SpecifierType == {"Esm", "Cjs", "Url"}

\* std::path::is_separator: '/' everywhere, '\' as well on Windows.
is_separator(b, windows) == b = 47 \/ (windows /\ b = 92)

\* Path::is_absolute on Windows: a drive prefix followed by a root, or a
\* UNC / verbatim / device prefix (two leading separators).
is_absolute(s) ==
  \/ /\ Len(s) >= 3
     /\ (s[1] >= 65 /\ s[1] <= 90) \/ (s[1] >= 97 /\ s[1] <= 122)
     /\ s[2] = 58
     /\ is_separator(s[3], TRUE)
  \/ Len(s) >= 2 /\ is_separator(s[1], TRUE) /\ is_separator(s[2], TRUE)

\* What Url::parse(specifier)?.to_file_path() can answer for a file: URL:
\* a parse error, a URL with no local path, or an absolute path.
FilePaths == {Str(<<"/">>), Str(<<"/", "f", "s">>)}

UrlOutcomes ==
  {[kind |-> "UrlError", path |-> <<>>],
   [kind |-> "InvalidFileUrl", path |-> <<>>]}
    \cup {[kind |-> "Path", path |-> p] : p \in FilePaths}

(***************************************************************************)
(* Values of the source's types.                                           *)
(***************************************************************************)
\* enum Specifier; b is the subpath of a Package and empty otherwise.
Specifier(variant, a, b) == [variant |-> variant, a |-> a, b |-> b]

NoSpecifier == Specifier("None", <<>>, <<>>)

\* Result<(Specifier, Option<&str>), SpecifierError>, or a panic.
Ok(spec, query) ==
  [kind |-> "Ok", err |-> "None", spec |-> spec, query |-> query]
Err(e) == [kind |-> "Err", err |-> e, spec |-> NoSpecifier, query |-> None]
Panic == [kind |-> "Panic", err |-> "None", spec |-> NoSpecifier, query |-> None]
Pending ==
  [kind |-> "Pending", err |-> "None", spec |-> NoSpecifier, query |-> None]

\* Result<(&str, &str), SpecifierError>, or a panic.
PkgOk(module, subpath) ==
  [kind |-> "Ok", err |-> "None", module |-> module, subpath |-> subpath]
PkgErr(e) == [kind |-> "Err", err |-> e, module |-> <<>>, subpath |-> <<>>]
PkgPanic ==
  [kind |-> "Panic", err |-> "None", module |-> <<>>, subpath |-> <<>>]
PkgPending ==
  [kind |-> "Pending", err |-> "None", module |-> <<>>, subpath |-> <<>>]

(***************************************************************************)
(* The helpers of specifier.rs.                                            *)
(***************************************************************************)
ascii_alpha(b) == (b >= 97 /\ b <= 122) \/ (b >= 65 /\ b <= 90)

\* The loop of parse_scheme from character i on.  Every character it steps
\* over is ASCII, so the counter i is also the byte offset.
RECURSIVE parse_scheme_loop(_, _, _)
parse_scheme_loop(input, i, is_lowercase) ==
  IF i >= Len(input) THEN [ok |-> FALSE, scheme |-> <<>>, rest |-> <<>>]
  ELSE LET c == input[i + 1]
       IN IF c >= 65 /\ c <= 90 THEN parse_scheme_loop(input, i + 1, FALSE)
          ELSE IF \/ c >= 97 /\ c <= 122
                  \/ c >= 48 /\ c <= 57
                  \/ c \in {43, 45, 46}
            THEN parse_scheme_loop(input, i + 1, is_lowercase)
          ELSE IF c = 58
            THEN LET scheme == Slice(input, 0, i)
                     rest == Slice(input, i + 1, Len(input))
                 IN [ok |-> TRUE,
                     scheme |-> IF is_lowercase THEN scheme
                                ELSE to_ascii_lowercase(scheme),
                     rest |-> rest]
          ELSE [ok |-> FALSE, scheme |-> <<>>, rest |-> <<>>]

parse_scheme(input) ==
  IF input = <<>> \/ ~ascii_alpha(input[1])
  THEN [ok |-> FALSE, scheme |-> <<>>, rest |-> <<>>]
  ELSE parse_scheme_loop(input, 0, TRUE)

parse_path(input) ==
  LET pos == position(input, {63, 35})
  IN IF pos.some
     THEN IF is_char_boundary(input, pos.val)
          THEN [panic |-> FALSE,
                path |-> Slice(input, 0, pos.val),
                rest |-> Slice(input, pos.val, Len(input))]
          ELSE [panic |-> TRUE, path |-> <<>>, rest |-> <<>>]
     ELSE [panic |-> FALSE, path |-> input, rest |-> <<>>]

parse_query(input) ==
  IF input # <<>> /\ input[1] = 63
  THEN LET pos == position(input, {35})
       IN IF pos.some
          THEN IF is_char_boundary(input, pos.val)
               THEN [panic |-> FALSE,
                     query |-> Some(Slice(input, 0, pos.val)),
                     rest |-> Slice(input, pos.val, Len(input))]
               ELSE [panic |-> TRUE, query |-> None, rest |-> <<>>]
          ELSE [panic |-> FALSE, query |-> Some(input), rest |-> <<>>]
  ELSE [panic |-> FALSE, query |-> None, rest |-> input]

\* parse_package_specifier with the unscoped subpath cut one byte early, so
\* that it keeps the '/' (a mutant of the code).
parse_package_specifier_keeps_separator(specifier) ==
  LET idx == position(specifier, {47})
      n == Len(specifier)
  IN IF starts_with(specifier, <<64>>)
     THEN IF ~idx.some THEN PkgErr("InvalidPackageSpecifier")
          ELSE IF ~SliceOk(specifier, idx.val + 1, n) THEN PkgPanic
          ELSE LET next == position(Slice(specifier, idx.val + 1, n), {47})
               IN IF next.some
                  THEN IF /\ SliceOk(specifier, 0, idx.val + 1 + next.val)
                          /\ SliceOk(specifier, idx.val + next.val + 2, n)
                       THEN PkgOk(Slice(specifier, 0, idx.val + 1 + next.val),
                                  Slice(specifier, idx.val + next.val + 2, n))
                       ELSE PkgPanic
                  ELSE PkgOk(specifier, <<>>)
     ELSE IF idx.some
          THEN IF /\ SliceOk(specifier, 0, idx.val)
                  /\ SliceOk(specifier, idx.val, n)
               THEN PkgOk(Slice(specifier, 0, idx.val),
                          Slice(specifier, idx.val, n))
               ELSE PkgPanic
          ELSE PkgOk(specifier, <<>>)

parse_package_specifier(specifier) ==
  LET idx == position(specifier, {47})
      n == Len(specifier)
  IN IF starts_with(specifier, <<64>>)
     THEN IF ~idx.some THEN PkgErr("InvalidPackageSpecifier")
          ELSE IF ~SliceOk(specifier, idx.val + 1, n) THEN PkgPanic
          ELSE LET next == position(Slice(specifier, idx.val + 1, n), {47})
               IN IF next.some
                  THEN IF /\ SliceOk(specifier, 0, idx.val + 1 + next.val)
                          /\ SliceOk(specifier, idx.val + next.val + 2, n)
                       THEN PkgOk(Slice(specifier, 0, idx.val + 1 + next.val),
                                  Slice(specifier, idx.val + next.val + 2, n))
                       ELSE PkgPanic
                  ELSE PkgOk(specifier, <<>>)
     ELSE IF idx.some
          THEN IF /\ SliceOk(specifier, 0, idx.val)
                  /\ SliceOk(specifier, idx.val + 1, n)
               THEN PkgOk(Slice(specifier, 0, idx.val),
                          Slice(specifier, idx.val + 1, n))
               ELSE PkgPanic
          ELSE PkgOk(specifier, <<>>)

\* parse_package: the Package of a split, its error, or its panic.
parse_package(specifier, query) ==
  LET r == parse_package_specifier(specifier)
  IN IF r.kind = "Ok"
     THEN Ok(Specifier("Package", r.module, r.subpath), query)
     ELSE IF r.kind = "Err" THEN Err(r.err)
     ELSE Panic

\* decode_path with the CJS arm lost: every context splits and decodes (a
\* mutant of the code).
decode_path_in_every_context(specifier, specifier_type) ==
  LET p == parse_path(specifier)
      q == parse_query(p.rest)
  IN IF p.panic \/ q.panic
     THEN [panic |-> TRUE, path |-> <<>>, query |-> None]
     ELSE [panic |-> FALSE,
           path |-> decode_utf8_lossy(p.path),
           query |-> q.query]

decode_path(specifier, specifier_type) ==
  IF specifier_type \in {"Url", "Esm"}
  THEN LET p == parse_path(specifier)
           q == parse_query(p.rest)
       IN IF p.panic \/ q.panic
          THEN [panic |-> TRUE, path |-> <<>>, query |-> None]
          ELSE [panic |-> FALSE,
                path |-> decode_utf8_lossy(p.path),
                query |-> q.query]
  ELSE [panic |-> FALSE, path |-> specifier, query |-> None]

\* A path variant built from the outcome of decode_path.
Decoded(variant, specifier, specifier_type) ==
  LET d == decode_path(specifier, specifier_type)
  IN IF d.panic THEN Panic ELSE Ok(Specifier(variant, d.path, <<>>), d.query)

\* The scheme branch of parse (a scheme was found), for ESM and URL.
parse_with_scheme(specifier, sch, flags, url) ==
  LET p == parse_path(sch.rest)
      q == parse_query(p.rest)
  IN IF p.panic \/ q.panic THEN Panic
     ELSE IF sch.scheme = Str(<<"n", "p", "m">>) /\ "NPM_SCHEME" \in flags
       THEN IF p.path \in BUILTINS
            THEN Ok(Specifier("Builtin", p.path, <<>>), None)
            ELSE parse_package(decode_utf8_lossy(p.path), q.query)
     ELSE IF sch.scheme = Str(<<"n", "o", "d", "e">>)
       THEN Ok(Specifier("Builtin", p.path, <<>>), None)
     ELSE IF sch.scheme = Str(<<"f", "i", "l", "e">>)
       THEN IF url.kind = "UrlError" THEN Err("UrlError")
            ELSE IF url.kind = "InvalidFileUrl" THEN Err("InvalidFileUrl")
            ELSE Ok(Specifier("Absolute", url.path, <<>>), q.query)
     ELSE Ok(Specifier("Url", specifier, <<>>), None)

\* The bare branch of parse (first byte none of '.', '~', '/', '#').
parse_bare(specifier, specifier_type, flags, windows, url) ==
  IF specifier_type \in {"Url", "Esm"}
  THEN LET sch == parse_scheme(specifier)
       IN IF sch.ok THEN parse_with_scheme(specifier, sch, flags, url)
          ELSE LET p == parse_path(specifier)
               IN IF p.panic THEN Panic
                  ELSE IF specifier_type = "Esm"
                    THEN IF p.path \in BUILTINS
                         THEN Ok(Specifier("Builtin", p.path, <<>>), None)
                         ELSE LET q == parse_query(p.rest)
                              IN IF q.panic THEN Panic
                                 ELSE parse_package(decode_utf8_lossy(p.path),
                                                    q.query)
                  ELSE Decoded("Relative", specifier, specifier_type)
  ELSE IF specifier \in BUILTINS
       THEN Ok(Specifier("Builtin", specifier, <<>>), None)
       ELSE IF /\ windows
               /\ "ABSOLUTE_SPECIFIERS" \notin flags
               /\ is_absolute(specifier)
            THEN Ok(Specifier("Absolute", specifier, <<>>), None)
            ELSE parse_package(specifier, None)

\* The '.' arm of parse without the strip of "./" (a mutant of the code).
parse_dot_without_strip(specifier, specifier_type) ==
  Decoded("Relative", specifier, specifier_type)

\* The '.' arm of parse: one leading "./" is stripped, then the path decoded.
parse_dot(specifier, specifier_type) ==
  Decoded("Relative",
          IF starts_with(specifier, <<46, 47>>)
          THEN Slice(specifier, 2, Len(specifier))
          ELSE specifier,
          specifier_type)

\* The match of parse on the first byte of a non-empty specifier.
parse_nonempty(specifier, specifier_type, flags, windows, url) ==
  IF specifier[1] = 46 THEN parse_dot(specifier, specifier_type)
  ELSE IF specifier[1] = 126
    THEN LET s1 == Slice(specifier, 1, Len(specifier))
         IN Decoded("Tilde",
                    IF s1 # <<>> /\ is_separator(s1[1], windows)
                    THEN Slice(s1, 1, Len(s1))
                    ELSE s1,
                    specifier_type)
  ELSE IF specifier[1] = 47
    THEN IF starts_with(specifier, <<47, 47>>) /\ specifier_type = "Url"
         THEN Ok(Specifier("Url", specifier, <<>>), None)
         ELSE Decoded("Absolute", specifier, specifier_type)
  ELSE IF specifier[1] = 35
    THEN Ok(Specifier("Hash", Slice(specifier, 1, Len(specifier)), <<>>), None)
  ELSE parse_bare(specifier, specifier_type, flags, windows, url)

\* parse without the test for the empty input: the read of the first byte
\* is out of bounds and panics (a mutant of the code).
parse_without_empty_check(specifier, specifier_type, flags, windows, url) ==
  IF specifier = <<>> THEN Panic
  ELSE parse_nonempty(specifier, specifier_type, flags, windows, url)

\* Specifier::parse.  windows is the build target (cfg(windows)) and url
\* the answer of the url crate, read by the file: branch alone.
parse(specifier, specifier_type, flags, windows, url) ==
  IF specifier = <<>> THEN Err("EmptySpecifier")
  ELSE parse_nonempty(specifier, specifier_type, flags, windows, url)

\* to_string with the separator of a path dropped from its head, as the
\* Tilde arm of parse does (a mutant of the code).
to_string_without_root(spec) ==
  IF spec.variant \in {"Relative", "Absolute", "Tilde"}
  THEN LET text == from_utf8_lossy(spec.a)
       IN IF text # <<>> /\ text[1] = 47
          THEN SubSeq(text, 2, Len(text)) ELSE text
  ELSE IF spec.variant = "Package"
    THEN IF spec.b = <<>> THEN spec.a ELSE spec.a \o <<47>> \o spec.b
  ELSE spec.a

\* Specifier::to_string.  A path's text is OsStr::to_string_lossy.
to_string(spec) ==
  IF spec.variant \in {"Relative", "Absolute", "Tilde"}
  THEN from_utf8_lossy(spec.a)
  ELSE IF spec.variant = "Package"
    THEN IF spec.b = <<>> THEN spec.a ELSE spec.a \o <<47>> \o spec.b
  ELSE spec.a

(***************************************************************************)
(* The inputs explored: a head that selects the branch of parse, followed  *)
(* by at most MaxPieces pieces.                                            *)
(***************************************************************************)
MaxPieces == 3

Heads ==
  {<<>>,
   Str(<<".">>), Str(<<".", "/">>), Str(<<"~">>), Str(<<"~", "\\">>),
   Str(<<"/">>), Str(<<"#">>), Str(<<"@">>),
   Str(<<"n", "o", "d", "e", ":">>), Str(<<"N", "o", "d", "e", ":">>),
   Str(<<"n", "p", "m", ":">>), Str(<<"f", "i", "l", "e", ":">>),
   Str(<<"a", ":">>)}

Pieces ==
  {Str(<<"/">>), Str(<<"?">>), Str(<<"#">>), Str(<<".">>),
   Str(<<"%", "2", "F">>), Str(<<"%">>), Str(<<"f", "s">>), EAcute}

RECURSIVE Texts(_)
Texts(n) ==
  IF n = 0 THEN {<<>>}
  ELSE LET T == Texts(n - 1) IN T \cup {t \o p : t \in T, p \in Pieces}

Inputs == {h \o t : h \in Heads, t \in Texts(MaxPieces)}

(***************************************************************************)
(* State: one caller-owned input, the calls made on it and their results.  *)
(***************************************************************************)
VARIABLES
  specifier,       \* the input text
  windows,         \* whether the build targets Windows
  specifier_type,  \* the SpecifierType of the call to parse
  flags,           \* the Flags of the call to parse
  result,          \* what parse(specifier, specifier_type, flags) returned
  reparsed,        \* what parse(result.to_string(), ..) returned
  split,           \* what parse_package_specifier(specifier) returned
  resplit,         \* what parse_package_specifier of split's text returned
  pc

vars ==
  <<specifier, windows, specifier_type, flags, result, reparsed, split,
    resplit, pc>>

Init ==
  /\ specifier \in Inputs
  /\ windows \in BOOLEAN
  /\ specifier_type = "Cjs"
  /\ flags = {}
  /\ result = Pending
  /\ reparsed = Pending
  /\ split = PkgPending
  /\ resplit = PkgPending
  /\ pc = "start"

\* A caller invokes Specifier::parse on the input.
Parse ==
  /\ pc = "start"
  /\ \E t \in SpecifierType, f \in SUBSET FlagNames, url \in UrlOutcomes :
       /\ specifier_type' = t
       /\ flags' = f
       /\ result' = parse(specifier, t, f, windows, url)
  /\ pc' = "parsed"
  /\ UNCHANGED <<specifier, windows, reparsed, split, resplit>>

\* The caller parses the text of the Specifier it got, in the same context.
Reparse ==
  /\ pc = "parsed"
  /\ result.kind = "Ok"
  /\ \E url \in UrlOutcomes :
       reparsed' =
         parse(to_string(result.spec), specifier_type, flags, windows, url)
  /\ pc' = "reparsed"
  /\ UNCHANGED <<specifier, windows, specifier_type, flags, result, split,
                 resplit>>

\* A caller invokes parse_package_specifier on the input.
SplitPackage ==
  /\ pc = "start"
  /\ split' = parse_package_specifier(specifier)
  /\ pc' = "split"
  /\ UNCHANGED <<specifier, windows, specifier_type, flags, result, reparsed,
                 resplit>>

\* The caller splits the text of Package(module, subpath) again.
ResplitPackage ==
  /\ pc = "split"
  /\ split.kind = "Ok"
  /\ resplit' =
       parse_package_specifier(
         to_string(Specifier("Package", split.module, split.subpath)))
  /\ pc' = "resplit"
  /\ UNCHANGED <<specifier, windows, specifier_type, flags, result, reparsed,
                 split>>

Next == Parse \/ Reparse \/ SplitPackage \/ ResplitPackage

Spec == Init /\ [][Next]_vars

(***************************************************************************)
(* Text notions the claims are stated in.  They look at bytes and byte     *)
(* offsets only, and use none of the operators above.                      *)
(***************************************************************************)
\* The 1-based index of the first byte of s that is in set, 0 when none is.
FirstByte(s, set) ==
  LET hits == {i \in 1..Len(s) : s[i] \in set}
  IN IF hits = {} THEN 0 ELSE CHOOSE i \in hits : \A j \in hits : i <= j

\* The text of s before its first byte in set (all of s when none is).
TextBefore(s, set) ==
  IF FirstByte(s, set) = 0 THEN s ELSE SubSeq(s, 1, FirstByte(s, set) - 1)

\* The text of s from its first byte in set on (empty when none is).
TextFrom(s, set) ==
  IF FirstByte(s, set) = 0 THEN <<>> ELSE SubSeq(s, FirstByte(s, set), Len(s))

IsPrefixOf(a, s) == Len(a) <= Len(s) /\ SubSeq(s, 1, Len(a)) = a
IsSuffixOf(a, s) ==
  Len(a) <= Len(s) /\ SubSeq(s, Len(s) - Len(a) + 1, Len(s)) = a

IsAsciiText(s) == \A i \in 1..Len(s) : s[i] < 128

DocumentedErrors ==
  {"EmptySpecifier", "InvalidPackageSpecifier", "UrlError", "InvalidFileUrl"}

\* The path part and the query of a text, as sections 4.2 and 4.6 of the
\* specification describe them.
PathPart(s) == TextBefore(s, {63, 35})
QueryPart(s) ==
  LET rest == TextFrom(s, {63, 35})
  IN IF rest # <<>> /\ rest[1] = 63 THEN Some(TextBefore(rest, {35})) ELSE None

\* The split of a package specifier, as section 4.3 describes it.
ExpectedSplit(spec) ==
  LET i == FirstByte(spec, {47})
      k == FirstByte(SubSeq(spec, i + 1, Len(spec)), {47})
  IN IF spec # <<>> /\ spec[1] = 64
     THEN IF i = 0 THEN PkgErr("InvalidPackageSpecifier")
          ELSE IF k = 0 THEN PkgOk(spec, <<>>)
          ELSE PkgOk(SubSeq(spec, 1, i + k - 1),
                     SubSeq(spec, i + k + 1, Len(spec)))
     ELSE IF i = 0 THEN PkgOk(spec, <<>>)
          ELSE PkgOk(SubSeq(spec, 1, i - 1), SubSeq(spec, i + 1, Len(spec)))

(***************************************************************************)
(* C1: for every non-empty input (multi-byte characters included), every   *)
(* context and every flag combination, parse returns one Specifier or one  *)
(* of the four documented errors; it never aborts without a value.         *)
(***************************************************************************)
C1_ParseAlwaysReturns ==
  (pc = "parsed" /\ specifier # <<>>) =>
    \/ result.kind = "Ok"
    \/ result.kind = "Err" /\ result.err \in DocumentedErrors

\* C1, restricted to ASCII inputs: on inputs of ASCII characters only parse returns.
C1_ReturnsOnAscii ==
  (pc = "parsed" /\ specifier # <<>> /\ IsAsciiText(specifier)) =>
    \/ result.kind = "Ok"
    \/ result.kind = "Err" /\ result.err \in DocumentedErrors

(***************************************************************************)
(* C8: parse fails with EmptySpecifier if and only if the input has zero   *)
(* length, in every context and for every flag combination.                *)
(***************************************************************************)
C8_EmptySpecifierIffEmpty ==
  /\ pc \in {"parsed", "reparsed"} =>
       ((result.kind = "Err" /\ result.err = "EmptySpecifier")
          <=> specifier = <<>>)
  /\ pc = "reparsed" =>
       ((reparsed.kind = "Err" /\ reparsed.err = "EmptySpecifier")
          <=> to_string(result.spec) = <<>>)

C8_Witness ==
  /\ pc = "parsed"
  /\ specifier = <<>>
  /\ specifier_type = "Esm"
  /\ result = Err("EmptySpecifier")

C9_SplitOnAscii ==
  (pc = "split" /\ IsAsciiText(specifier)) => split = ExpectedSplit(specifier)

(***************************************************************************)
(* C4: whenever parse_package_specifier succeeds with (module, subpath),   *)
(* splitting the text of Package(module, subpath) succeeds with the same   *)
(* pair.                                                                   *)
(***************************************************************************)
C4_SplitRoundTrip ==
  pc = "resplit" =>
    /\ resplit.kind = "Ok"
    /\ resplit.module = split.module
    /\ resplit.subpath = split.subpath

\* C4, restricted to ASCII inputs: the round trip holds on ASCII inputs.
C4_RoundTripOnAscii ==
  (pc = "resplit" /\ IsAsciiText(specifier)) => resplit = split

(***************************************************************************)
(* C6: under ESM or URL context every input whose scheme, lower-cased, is  *)
(* "node" parses as Builtin(p) with no query, p being the raw text between *)
(* the ':' and the first '?' or '#' (or the end), whatever the flags.      *)
(***************************************************************************)
HasNodeScheme(s) ==
  /\ Len(s) >= 5
  /\ to_ascii_lowercase(SubSeq(s, 1, 4)) = Str(<<"n", "o", "d", "e">>)
  /\ s[5] = 58

C6_NodeSchemeIsRawBuiltin ==
  (pc = "parsed" /\ specifier_type \in {"Esm", "Url"}
     /\ HasNodeScheme(specifier)) =>
    result =
      Ok(Specifier("Builtin",
                   PathPart(SubSeq(specifier, 6, Len(specifier))), <<>>),
         None)

\* C6, restricted to ASCII inputs: the claim holds on ASCII inputs.
C6_NodeSchemeOnAscii ==
  (pc = "parsed" /\ specifier_type \in {"Esm", "Url"}
     /\ HasNodeScheme(specifier) /\ IsAsciiText(specifier)) =>
    result =
      Ok(Specifier("Builtin",
                   PathPart(SubSeq(specifier, 6, Len(specifier))), <<>>),
         None)

(***************************************************************************)
(* C7: for a bare input in which no scheme is found, URL context returns   *)
(* Relative(percent-decoded path part of the whole text) with the          *)
(* extracted query, never Package or Builtin; ESM context returns          *)
(* Builtin(path) when the path part is a builtin name, and otherwise the   *)
(* Package split from the percent-decoded path, with the extracted query.  *)
(***************************************************************************)
IsBare(s) == s # <<>> /\ s[1] \notin {46, 126, 47, 35}

\* What C7 says parse returns for a bare, scheme-less input.
ExpectedBare(s, context) ==
  IF context = "Url"
  THEN Ok(Specifier("Relative", decode_utf8_lossy(PathPart(s)), <<>>),
          QueryPart(s))
  ELSE IF PathPart(s) \in BUILTINS
    THEN Ok(Specifier("Builtin", PathPart(s), <<>>), None)
    ELSE LET e == ExpectedSplit(decode_utf8_lossy(PathPart(s)))
         IN IF e.kind = "Ok"
            THEN Ok(Specifier("Package", e.module, e.subpath), QueryPart(s))
            ELSE Err(e.err)

C7_BareWithoutScheme ==
  (pc = "parsed" /\ specifier_type \in {"Esm", "Url"} /\ IsBare(specifier)
     /\ ~parse_scheme(specifier).ok) =>
    result = ExpectedBare(specifier, specifier_type)

\* C7, restricted to ASCII inputs: the claim holds on ASCII inputs.
C7_BareOnAscii ==
  (pc = "parsed" /\ specifier_type \in {"Esm", "Url"} /\ IsBare(specifier)
     /\ ~parse_scheme(specifier).ok /\ IsAsciiText(specifier)) =>
    result = ExpectedBare(specifier, specifier_type)

(***************************************************************************)
(* C5: under CJS context a successful parse returns no query and payloads  *)
(* that are unmodified slices of the input: nothing is split off at '?'    *)
(* or '#' and nothing is percent-decoded, in any branch.                   *)
(***************************************************************************)
C5_CjsPayloadIsRawInput ==
  (pc = "parsed" /\ specifier_type = "Cjs" /\ result.kind = "Ok") =>
    /\ result.query = None
    /\ IF result.spec.variant = "Package"
       THEN /\ IsPrefixOf(result.spec.a, specifier)
            /\ IsSuffixOf(result.spec.b, specifier)
       ELSE /\ IsSuffixOf(result.spec.a, specifier)
            /\ Len(result.spec.a) >= Len(specifier) - 2

\* A CJS parse has kept a '?' and a percent escape inside a path payload.
C5_Witness ==
  /\ pc = "parsed"
  /\ specifier_type = "Cjs"
  /\ result.kind = "Ok"
  /\ result.spec.variant = "Relative"
  /\ result.query = None
  /\ specifier = Str(<<".", "/", "%", "2", "F", "?">>)
  /\ result.spec.a = Str(<<"%", "2", "F", "?">>)

(***************************************************************************)
(* C3: every Package(module, subpath) that parse or                        *)
(* parse_package_specifier produces has a subpath that never begins with   *)
(* '/': it is empty when no subpath is named and otherwise starts with     *)
(* another character.                                                      *)
(***************************************************************************)
NoLeadingSlash(subpath) == subpath = <<>> \/ subpath[1] # 47

SplitShape(t, module, subpath) ==
  \/ module = t /\ subpath = <<>>
  \/ /\ IsPrefixOf(module, t)
     /\ IsSuffixOf(subpath, t)
     /\ Len(module) + 1 + Len(subpath) = Len(t)

DotSlash == <<46, 47>>

\* C10 as claimed.
C10_RelativeNeverDotSlash ==
  (pc = "parsed" /\ result.kind = "Ok" /\ result.spec.variant = "Relative")
    => ~IsPrefixOf(DotSlash, result.spec.a)

\* The input with one leading "./" removed.
StrippedOnce(s) ==
  IF IsPrefixOf(DotSlash, s) THEN SubSeq(s, 3, Len(s)) ELSE s

\* s begins with "./", either character possibly as its percent escape.
EncodedDotSlash(s) ==
  \E d \in {<<46>>, <<37, 50, 69>>, <<37, 50, 101>>},
     sl \in {<<47>>, <<37, 50, 70>>, <<37, 50, 102>>} : IsPrefixOf(d \o sl, s)

\* C10 as amended: parse strips one leading "./" and no more.  Under CJS
\* the Relative path is the input without that one "./"; under ESM and URL
\* it begins with "./" exactly when what follows the stripped "./" begins
\* with "./" again, written plainly or percent-encoded.
C10_RelativeStripsOneDotSlash ==
  (pc = "parsed" /\ result.kind = "Ok" /\ result.spec.variant = "Relative")
    =>
    /\ specifier_type = "Cjs" => result.spec.a = StrippedOnce(specifier)
    /\ specifier_type # "Cjs" =>
         (IsPrefixOf(DotSlash, result.spec.a)
            <=> EncodedDotSlash(StrippedOnce(specifier)))

\* "././" has been parsed into Relative("./").
C10_Witness ==
  /\ pc = "parsed"
  /\ specifier = Str(<<".", "/", ".", "/">>)
  /\ specifier_type = "Esm"
  /\ result.kind = "Ok"
  /\ result.spec = Specifier("Relative", DotSlash, <<>>)

(***************************************************************************)
(* C2: for every Relative, Absolute, Tilde or Builtin that parse returns   *)
(* under ESM or CJS, parsing its text in the same context and with the     *)
(* same flags returns an equal Specifier.                                  *)
(***************************************************************************)
RoundTrips == reparsed.kind = "Ok" /\ reparsed.spec = result.spec

\* C2 as claimed.
C2_RoundTrip ==
  (pc = "reparsed" /\ specifier_type \in {"Esm", "Cjs"}
     /\ result.spec.variant \in {"Relative", "Absolute", "Tilde", "Builtin"})
    => RoundTrips

\* A path that begins with '.' but not with "./".
DotNotDotSlash(path) ==
  path # <<>> /\ path[1] = 46 /\ ~IsPrefixOf(DotSlash, path)

\* A path without '?', '#' and '%'.
NoUrlSyntax(path) == \A i \in 1..Len(path) : path[i] \notin {63, 35, 37}

\* C2 as amended: under CJS an Absolute, a Builtin, and a Relative whose
\* path begins with '.' but not "./", parse back to an equal Specifier.
\* Under ESM so do an Absolute whose path begins with '/' and such a
\* Relative when the path holds no '?', '#' or '%', and a Builtin whose name
\* is in the registry.  A Tilde never parses back to itself.
C2_RoundTripOfStableText ==
  pc = "reparsed" =>
    LET v == result.spec
    IN /\ (specifier_type = "Cjs" /\ v.variant \in {"Absolute", "Builtin"})
            => RoundTrips
       /\ (specifier_type \in {"Cjs", "Esm"} /\ v.variant = "Relative"
             /\ DotNotDotSlash(v.a)
             /\ (specifier_type = "Esm" => NoUrlSyntax(v.a)))
            => RoundTrips
       /\ (specifier_type = "Esm" /\ v.variant = "Absolute"
             /\ IsPrefixOf(<<47>>, v.a) /\ NoUrlSyntax(v.a))
            => RoundTrips
       /\ (specifier_type = "Esm" /\ v.variant = "Builtin"
             /\ v.a \in BUILTINS)
            => RoundTrips
       /\ (specifier_type \in {"Cjs", "Esm"} /\ v.variant = "Tilde")
            => ~RoundTrips

\* An Absolute path with a '?' in it has made the round trip under CJS.
C2_Witness ==
  /\ pc = "reparsed"
  /\ specifier_type = "Cjs"
  /\ specifier = Str(<<"/", "f", "s", "?">>)
  /\ result.spec = Specifier("Absolute", specifier, <<>>)
  /\ RoundTrips

====
